---- MODULE Spec2Model ----
(***************************************************************************)
(* A model of the aggregation core of dataship (src/index.js): the         *)
(* reducers of dataship.reduce, dataship.num.mode, dataship.frame.groupby, *)
(* dataship.frame.groupers.interval, dataship.util.insert/binarySearch and *)
(* the binding of groupby to its names while the file loads.               *)
(*                                                                         *)
(* JavaScript values are records [t, p, q, s]: t is the type tag, p/q the  *)
(* reduced fraction of a number (exact arithmetic stands in for doubles),  *)
(* s the text of a string.  A JavaScript object is the sequence of its     *)
(* own properties, [key, value] records, in insertion order.               *)
(***************************************************************************)
EXTENDS Integers, Sequences, FiniteSets, TLC

VARIABLES
    pc,             \* the operation in progress and its position
    arr,            \* util.insert / binarySearch: the array argument
    el,             \* util.insert / binarySearch: the element argument
    index,          \* the index binarySearch returned last
    iters,          \* how many times the loop of binarySearch ran last
    returned,       \* util.insert: the array object returned and its elements
    bounds,         \* interval: the bounds argument
    labels,         \* interval: the labels argument (Null when absent)
    val,            \* interval grouper: the value selected from the row
    label,          \* interval grouper: the label returned
    intervalSelector, \* interval: the selector argument
    grouperLabel,   \* interval: the label property of the grouper returned
    args,           \* groupby: the arguments as the caller passed them
    dataset,        \* groupby / reduce: the rows (or the array) passed in
    grouper,        \* groupby: the parameter grouper
    selector,       \* groupby: the parameter selector (Null when absent)
    reducer,        \* groupby / reduce: the name of the reducer in use
    initial,        \* groupby / reduce: the parameter initial (Null when absent)
    i,              \* groupby: the global loop variable i (0-based)
    result,         \* groupby: the result object; reduce: the accumulator
    count,          \* groupby: the count object
    state,          \* groupby: the state object
    calls,          \* groupby: the calls of grouper, selector and reducer so far
    pos,            \* reduce: the index of the next element of the array
    acc,            \* reduce: the accumulator
    fnState,        \* the .state property of every reducer function
    self,           \* the global variable self the stateful reducers assign
    ns,             \* the functions bound to dataship.groupby and dataship.frame.groupby
    thrown          \* TRUE once the operation in progress threw

vars == << pc, arr, el, index, iters, returned, bounds, labels, val, label, intervalSelector,
           grouperLabel, args, dataset,
           grouper, selector, reducer, initial, i, result, count, state, calls, pos, acc,
           fnState, self, ns, thrown >>

insertVars == << arr, el, index, iters, returned >>
intervalVars == << bounds, labels, val, label, intervalSelector, grouperLabel >>
groupbyVars == << args, dataset, grouper, selector, reducer, initial, i, result, count,
                 state, calls >>
reduceVars == << pos, acc >>
globalVars == << fnState, self, ns >>

----------------------------------------------------------------------------
(* Bounds of the model. *)

MaxLen == 4         \* longest array util.insert is applied to
MaxVal == 3         \* numbers are drawn from 1..MaxVal
MaxRows == 3        \* longest dataset of one groupby call
MaxInterleaved == 5 \* longest dataset of a call that interleaves two groups
MaxSession == 3     \* longest dataset or array of a call within a session
MaxBounds == 2      \* longest bounds array of interval
MaxArgRows == 2     \* longest dataset of a call whose arguments vary in shape
MaxPasses == 6      \* most runs of the loop body followed within one groupby call

----------------------------------------------------------------------------
(* JavaScript values. *)

RECURSIVE GCD(_, _)
GCD(a, b) == IF b = 0 THEN a ELSE GCD(b, a % b)

Abs(n) == IF n < 0 THEN -n ELSE n

Undefined == [t |-> "undefined", p |-> 0, q |-> 1, s |-> ""]
Null == [t |-> "null", p |-> 0, q |-> 1, s |-> ""]
NaN == [t |-> "nan", p |-> 0, q |-> 1, s |-> ""]
Str(s) == [t |-> "string", p |-> 0, q |-> 1, s |-> s]

\* a function value; s names it among the functions of the model
Fn(s) == [t |-> "function", p |-> 0, q |-> 1, s |-> s]

\* the number p/q, q # 0, as a reduced fraction with a positive denominator
Num(p, q) ==
    LET g == GCD(Abs(p), Abs(q))
        sgn == IF q < 0 THEN -1 ELSE 1
    IN  [t |-> "number", p |-> sgn * (p \div g), q |-> sgn * (q \div g), s |-> ""]

Number(n) == Num(n, 1)

IsNum(a) == a.t = "number"

\* a + b, a - b and a / b on numbers; NaN when an operand is no number
JsAdd(a, b) ==
    IF IsNum(a) /\ IsNum(b) THEN Num(a.p * b.q + b.p * a.q, a.q * b.q) ELSE NaN

JsSub(a, b) ==
    IF IsNum(a) /\ IsNum(b) THEN Num(a.p * b.q - b.p * a.q, a.q * b.q) ELSE NaN

JsDiv(a, b) ==
    IF IsNum(a) /\ IsNum(b) /\ b.p # 0 THEN Num(a.p * b.q, a.q * b.p) ELSE NaN

\* a < b and a > b: false whenever an operand is no number
JsLt(a, b) == IsNum(a) /\ IsNum(b) /\ a.p * b.q < b.p * a.q

JsGt(a, b) == JsLt(b, a)

Digits == << "0", "1", "2", "3", "4", "5", "6", "7", "8", "9" >>

RECURSIVE NatStr(_)
NatStr(n) == IF n < 10 THEN Digits[n + 1] ELSE NatStr(n \div 10) \o Digits[(n % 10) + 1]

IntStr(n) == IF n < 0 THEN "-" \o NatStr(-n) ELSE NatStr(n)

\* String(a), the conversion a property key or a string concatenation applies;
\* a fraction that is no integer is written p/q in place of its decimal digits
String(a) ==
    CASE a.t = "string" -> a.s
      [] a.t = "undefined" -> "undefined"
      [] a.t = "null" -> "null"
      [] a.t = "nan" -> "NaN"
      [] OTHER -> IF a.q = 1 THEN IntStr(a.p) ELSE IntStr(a.p) \o "/" \o IntStr(a.q)

----------------------------------------------------------------------------
(* JavaScript objects: own properties in insertion order. *)

EmptyObject == << >>

Keys(obj) == { obj[j].key : j \in 1..Len(obj) }

Has(obj, key) == key \in Keys(obj)

\* obj[key]: undefined when obj has no such property
Get(obj, key) ==
    IF Has(obj, key)
    THEN obj[CHOOSE j \in 1..Len(obj) : obj[j].key = key].value
    ELSE Undefined

\* obj[key] = value: an existing property keeps its place, a new one is appended
Put(obj, key, value) ==
    IF Has(obj, key)
    THEN [j \in 1..Len(obj) |->
            IF obj[j].key = key THEN [key |-> key, value |-> value] ELSE obj[j]]
    ELSE Append(obj, [key |-> key, value |-> value])

\* the key is an integer index: the canonical decimal string of an integer
\* from 0 to 2^32 - 2 (every such string of up to 9 digits is below that
\* limit, and no key of the model is longer)
IsArrayIndex(key) ==
    /\ Len(key) \in 1..9
    /\ \A j \in 1..Len(key) : \E c \in 1..10 : SubSeq(key, j, j) = Digits[c]
    /\ Len(key) > 1 => SubSeq(key, 1, 1) # "0"

\* the integer an integer index is the decimal string of
RECURSIVE IndexOf(_)
IndexOf(key) ==
    LET last == CHOOSE c \in 1..10 : SubSeq(key, Len(key), Len(key)) = Digits[c]
    IN  IF Len(key) = 1 THEN last - 1
        ELSE 10 * IndexOf(SubSeq(key, 1, Len(key) - 1)) + (last - 1)

\* the integer indices among a set of keys, in ascending order
RECURSIVE Ascending(_)
Ascending(S) ==
    IF S = { } THEN << >>
    ELSE LET least == CHOOSE k \in S : \A o \in S : IndexOf(k) <= IndexOf(o)
         IN  << least >> \o Ascending(S \ { least })

\* the keys of obj in the order for-in and Object.keys enumerate them:
\* integer indices first, in ascending numeric order, then the other keys in
\* the order in which they were added
OwnKeys(obj) ==
    LET named == SelectSeq(obj, LAMBDA e : ~IsArrayIndex(e.key))
    IN  Ascending({ k \in Keys(obj) : IsArrayIndex(k) })
            \o [j \in 1..Len(named) |-> named[j].key]

\* the numbers arrays, rows and bounds are made of
Numbers == { Number(n) : n \in 1..MaxVal }

\* the sequences over S of length at most n
RECURSIVE SeqsUpTo(_, _)
SeqsUpTo(S, n) ==
    IF n = 0 THEN { << >> }
    ELSE SeqsUpTo(S, n - 1) \cup { Append(q, x) : q \in SeqsUpTo(S, n - 1), x \in S }

\* an array argument that may be absent (null or undefined)
NoLabels == [t |-> "null", items |-> << >>]
Array(items) == [t |-> "array", items |-> items]

\* arr[j], j 0-based: undefined outside the array
At(a, j) == IF j \in 0..(Len(a) - 1) THEN a[j + 1] ELSE Undefined

----------------------------------------------------------------------------
(* dataship.util.insert and binarySearch. *)

\* var d: the three-way comparator
d(a, b) == IF JsGt(a, b) THEN 1 ELSE IF JsLt(a, b) THEN -1 ELSE 0

\* the comparator with its arguments exchanged, comparator(arr[k], el)
dReversed(a, b) == IF JsGt(b, a) THEN 1 ELSE IF JsLt(b, a) THEN -1 ELSE 0

comparator(a, b) == d(a, b)

\* the while loop of binarySearch from the state (m, n); array indices are
\* 0-based in the code and 1-based here, so arr[k] of the code is a[k + 1]
RECURSIVE bsLoop(_, _, _, _, _)
bsLoop(a, e, m, n, steps) ==
    IF m <= n
    THEN LET k == (n + m) \div 2
             cmp == comparator(e, a[k + 1])
         IN  IF cmp > 0 THEN bsLoop(a, e, k + 1, n, steps + 1)
             ELSE IF cmp < 0 THEN bsLoop(a, e, m, k - 1, steps + 1)
             ELSE [index |-> k, iters |-> steps + 1]
    ELSE [index |-> m, iters |-> steps]

binarySearch(a, e) == bsLoop(a, e, 0, Len(a) - 1, 0)

\* arr.splice(at, 0, e), at 0-based
splice(a, at, e) == SubSeq(a, 1, at) \o << e >> \o SubSeq(a, at + 1, Len(a))

\* the element put one place too far to the right
spliceAfter(a, at, e) ==
    IF at < Len(a)
    THEN SubSeq(a, 1, at + 1) \o << e >> \o SubSeq(a, at + 2, Len(a))
    ELSE Append(a, e)

insertAfter(a, e) == spliceAfter(a, binarySearch(a, e).index, e)

insert(a, e) == splice(a, binarySearch(a, e).index, e)

\* the element inserted into a copy that is returned, the argument left alone
insertIntoCopy(a, e) ==
    [arr |-> a, returned |-> [object |-> "copy", items |-> insert(a, e)]]

\* dataship.util.insert(arr, el) as a call: the elements of the argument
\* after it, and the object it returns, which is the argument itself
insertCall(a, e) ==
    [arr |-> insert(a, e), returned |-> [object |-> "arr", items |-> insert(a, e)]]

----------------------------------------------------------------------------
(* The reducers of dataship.reduce.                                        *)
(*                                                                         *)
(* The state object of a stateful reducer is a record: t says whether it   *)
(* is undefined or an object, kind what its values property holds (none,   *)
(* the frequency table of mode, the sorted array of median).  A call of a  *)
(* reducer maps the globals g = [fnState, self] to [ret, g, thrown].       *)

Reducers == { "count", "sum", "mean", "min", "max", "mode", "median" }

NoState == [t |-> "undefined", kind |-> "none", table |-> << >>, list |-> << >>,
            argmax |-> Undefined]
EmptyState == [NoState EXCEPT !.t = "object"]

Returns(ret, g) == [ret |-> ret, g |-> g, thrown |-> FALSE]
Throws(g) == [ret |-> Undefined, g |-> g, thrown |-> TRUE]

\* dataship.reduce.max, min, count, sum, mean
max(agg, v) == IF JsGt(agg, v) THEN agg ELSE v
min(agg, v) == IF JsLt(agg, v) THEN agg ELSE v
\* the index in place of the number of elements
countIndex(agg, v, n) == Number(n)

count_(agg, v, n) == Number(n + 1)
sum(agg, v) == JsAdd(agg, v)
\* the mean of the aggregate and the value, whatever n
meanOfTwo(agg, v, n) == JsDiv(JsAdd(agg, v), Number(2))

mean(agg, v, n) == JsAdd(agg, JsDiv(JsSub(v, agg), Number(n + 1)))

\* self = dataship.reduce.mode.state = {...}: both name the one new object
WithModeState(g, st) == [fnState |-> [g.fnState EXCEPT !["mode"] = st], self |-> st]

\* a tie in frequency overwriting the argmax
modeCountTies(g, st, agg, v) ==
    LET key == String(v)
        n1 == IF Has(st.table, key) THEN JsAdd(Get(st.table, key), Number(1))
              ELSE Number(1)
        table1 == Put(st.table, key, n1)
        argmax1 == IF ~JsLt(Get(table1, key), Get(table1, String(agg)))
                   THEN v ELSE st.argmax
        st1 == [st EXCEPT !.table = table1, !.argmax = argmax1]
    IN  Returns(argmax1, WithModeState(g, st1))

\* lines 383-391 of dataship.reduce.mode, self being st
modeCount(g, st, agg, v) ==
    LET key == String(v)
        n1 == IF Has(st.table, key) THEN JsAdd(Get(st.table, key), Number(1))
              ELSE Number(1)
        table1 == Put(st.table, key, n1)
        argmax1 == IF JsGt(Get(table1, key), Get(table1, String(agg)))
                   THEN v ELSE st.argmax
        st1 == [st EXCEPT !.table = table1, !.argmax = argmax1]
    IN  Returns(argmax1, WithModeState(g, st1))

\* dataship.reduce.mode.  A call with n > 1 follows one with n = 1 in every
\* fold, so self.values is the table here; the other branch is the TypeError
\* of `val in undefined` on a state object that has no values
mode(g, agg, v, n) ==
    IF n = 0 THEN Returns(v, g)
    ELSE LET st == IF n = 1
                   THEN [t |-> "object", kind |-> "table",
                         table |-> << [key |-> String(agg), value |-> Number(1)] >>,
                         list |-> << >>, argmax |-> agg]
                   ELSE g.fnState["mode"]
         IN  IF st.kind = "table"
             THEN modeCount(g, st, agg, v)
             ELSE Throws([g EXCEPT !.self = st])

\* the upper middle element whatever the length
middleUpper(values) == values[(Len(values) \div 2) + 1]

\* lines 415-423 of dataship.reduce.median
middleOf(values) ==
    LET middle == Len(values) \div 2
    IN  IF Len(values) % 2 # 0
        THEN values[middle + 1]
        ELSE JsDiv(JsAdd(values[middle], values[middle + 1]), Number(2))

\* the state made on first use only, not whenever n === 1
medianNoReset(g, agg, n) ==
    IF g.fnState["mode"].kind # "array"
    THEN [EmptyState EXCEPT !.kind = "array", !.list = << agg >>]
    ELSE g.fnState["mode"]

\* lines 404-410 of dataship.reduce.median: the state object of this call
medianState(g, agg, n) ==
    IF n = 1
    THEN [EmptyState EXCEPT !.kind = "array", !.list = << agg >>]
    ELSE g.fnState["mode"]

\* dataship.reduce.median.  The other branch is the TypeError of util.insert
\* (arr.splice) on a values property that is not an array
median(g, agg, v, n) ==
    IF n = 0 THEN Returns(v, g)
    ELSE LET st == medianState(g, agg, n)
         IN  IF st.kind = "array"
             THEN LET st1 == [st EXCEPT !.list = insert(st.list, v)]
                  IN  Returns(middleOf(st1.list), WithModeState(g, st1))
             ELSE Throws([g EXCEPT !.self = st])

\* reducer(agg, val, n) for the reducer of that name
call(name, g, agg, v, n) ==
    CASE name = "count" -> Returns(count_(agg, v, n), g)
      [] name = "sum" -> Returns(sum(agg, v), g)
      [] name = "mean" -> Returns(mean(agg, v, n), g)
      [] name = "min" -> Returns(min(agg, v), g)
      [] name = "max" -> Returns(max(agg, v), g)
      [] name = "mode" -> mode(g, agg, v, n)
      [] name = "median" -> median(g, agg, v, n)

----------------------------------------------------------------------------
(* The specification of util.insert and binarySearch called on their own. *)

NoArgs == [grouper |-> Null, selector |-> Null, reducer |-> "null", initial |-> Null]

idleGroupby ==
    /\ args = NoArgs /\ dataset = << >> /\ grouper = Null /\ selector = Null
    /\ reducer = "null" /\ initial = Null
    /\ i = 0 /\ result = EmptyObject /\ count = EmptyObject /\ state = EmptyObject
    /\ calls = [grouper |-> 0, selector |-> 0, reducer |-> << >>, rows |-> << >>]

idleReduce == pos = 0 /\ acc = Undefined

\* lines 106 and 132: dataship exists, dataship.frame is framify
EmptyNamespace == [groupby |-> Undefined, frameGroupby |-> Undefined]

\* line 176: dataship.groupby = dataship.frame.groupby
exposeTopLevel(n) == [n EXCEPT !.groupby = n.frameGroupby]

\* line 975: dataship.frame.groupby = function groupby(...)
defineGroupby(n) == [n EXCEPT !.frameGroupby = Fn("groupby")]

\* the namespace once the file has run from its first line to its last
LoadedNamespace == defineGroupby(exposeTopLevel(EmptyNamespace))

\* the library as loaded: no reducer function has a state property yet
idleGlobals ==
    /\ fnState = [r \in Reducers |-> NoState] /\ self = NoState
    /\ ns = LoadedNamespace

idleInterval ==
    /\ bounds = << >> /\ labels = NoLabels /\ val = Undefined /\ label = Undefined
    /\ intervalSelector = Undefined /\ grouperLabel = Undefined

idleInsert ==
    /\ arr = << >> /\ el = Undefined /\ index = 0 /\ iters = 0
    /\ returned = [object |-> "none", items |-> << >>]

InitInsert ==
    /\ pc = "idle" /\ thrown = FALSE
    /\ idleInsert /\ idleInterval /\ idleGroupby /\ idleReduce /\ idleGlobals

\* binarySearch(arr, e, d)
CallBinarySearch ==
    \E e \in Numbers :
        /\ el' = e
        /\ index' = binarySearch(arr, e).index
        /\ iters' = binarySearch(arr, e).iters
        /\ pc' = "binarySearch"
        /\ UNCHANGED << arr, returned, thrown >>
        /\ UNCHANGED << intervalVars, groupbyVars, reduceVars, globalVars >>

\* dataship.util.insert(arr, e)
CallInsert ==
    \E e \in Numbers :
        /\ Len(arr) < MaxLen
        /\ el' = e
        /\ index' = binarySearch(arr, e).index
        /\ iters' = binarySearch(arr, e).iters
        /\ arr' = insertCall(arr, e).arr
        /\ returned' = insertCall(arr, e).returned
        /\ pc' = "insert"
        /\ UNCHANGED thrown
        /\ UNCHANGED << intervalVars, groupbyVars, reduceVars, globalVars >>

NextInsert == CallBinarySearch \/ CallInsert

SpecInsert == InitInsert /\ [][NextInsert]_vars

----------------------------------------------------------------------------
(* Properties of util.insert and binarySearch. *)

Sorted(a) == \A j \in 1..(Len(a) - 1) : ~JsGt(a[j], a[j + 1])

\* C6: after every call of dataship.util.insert, whatever values were inserted
\* (duplicates, values below or above all elements present), the sequence is
\* in non-decreasing order.
InsertKeepsSorted == Sorted(arr)

\* an insert has just put a duplicate below the largest element of a full array
InsertKeepsSortedWitness ==
    /\ pc = "insert" /\ Len(arr) = MaxLen
    /\ index < Len(arr) - 1
    /\ \E j \in 1..Len(arr) : j # index + 1 /\ arr[j] = el
    /\ \E j \in 1..Len(arr) : JsGt(arr[j], el)

\* C7: on a sorted sequence binarySearch ends within Len(arr) rounds of its
\* loop and returns an index in 0..Len(arr) with every element before it <= the
\* target and every element from it on >= the target: 0 for an empty
\* sequence or a target below all elements, Len(arr) for a target above all.
BinarySearchInsertionPoint ==
    (pc = "binarySearch" /\ Sorted(arr)) =>
        /\ iters <= Len(arr)
        /\ index \in 0..Len(arr)
        /\ \A j \in 1..index : ~JsGt(arr[j], el)
        /\ \A j \in (index + 1)..Len(arr) : ~JsLt(arr[j], el)
        /\ (arr = << >>) => index = 0
        /\ (\A j \in 1..Len(arr) : JsLt(el, arr[j])) => index = 0
        /\ (\A j \in 1..Len(arr) : JsGt(el, arr[j])) => index = Len(arr)

\* binarySearch has found a target equal to an inner element of a full array
BinarySearchInsertionPointWitness ==
    /\ pc = "binarySearch" /\ Len(arr) = MaxLen
    /\ index > 0 /\ index < Len(arr) - 1
    /\ arr[index + 1] = el
    /\ JsLt(arr[1], el) /\ JsGt(arr[Len(arr)], el)

\* q with its element at place at (from 1) taken out
Without(q, at) == SubSeq(q, 1, at - 1) \o SubSeq(q, at + 1, Len(q))

\* how many elements of q equal x
CountIn(q, x) == Cardinality({ j \in 1..Len(q) : q[j] = x })

\* C21: a call of dataship.util.insert(sequence, value) adds exactly one
\* element: the sequence is one longer, every value occurs in it as often as
\* before and the inserted value once more, taking the new element out gives
\* back the old sequence (the elements already present keep their relative
\* order), and the value returned is the sequence passed in, mutated.
InsertAddsOne ==
    [][pc' = "insert" =>
        /\ Len(arr') = Len(arr) + 1
        /\ \A x \in Numbers : CountIn(arr', x) = CountIn(arr, x) + (IF x = el' THEN 1 ELSE 0)
        /\ \E at \in 1..Len(arr') : arr'[at] = el' /\ Without(arr', at) = arr
        /\ returned'.object = "arr" /\ returned'.items = arr']_vars

\* a value has been inserted between smaller and larger elements and the
\* array passed in has come back with it
InsertAddsOneWitness ==
    /\ pc = "insert" /\ Len(arr) >= 3
    /\ index > 0 /\ index < Len(arr) - 1 /\ arr[index + 1] = el
    /\ JsLt(arr[index], el) /\ JsGt(arr[index + 2], el)
    /\ returned = [object |-> "arr", items |-> arr]

----------------------------------------------------------------------------
(* reduce(data, func, initial) on an array: Array.prototype.reduce calls   *)
(* func(accumulator, data[k], k) for k from 1, the accumulator starting as *)
(* data[0], or for k from 0 when an initial accumulator is given.          *)

IsNullish(a) == a.t \in { "null", "undefined" }

\* Array.prototype.reduce from index j on with the accumulator a
RECURSIVE reduceFrom(_, _, _, _, _)
reduceFrom(name, g, data, a, j) ==
    IF j >= Len(data) THEN Returns(a, g)
    ELSE LET r == call(name, g, a, data[j + 1], j)
         IN  IF r.thrown THEN r ELSE reduceFrom(name, r.g, data, r.ret, j + 1)

\* reduce(data, func, initial) on an array, lines 325-330
reduce(name, g, data, init) ==
    IF IsNullish(init)
    THEN IF data = << >> THEN Throws(g) ELSE reduceFrom(name, g, data, data[1], 1)
    ELSE reduceFrom(name, g, data, init, 0)

InitReduce ==
    /\ pc = "idle" /\ thrown = FALSE
    /\ idleInsert /\ idleInterval /\ idleGroupby /\ idleReduce /\ idleGlobals

\* reduce(data, func, initial) up to the first call of func
CallReduce ==
    /\ pc = "idle"
    /\ \E data \in SeqsUpTo(Numbers, MaxLen), f \in Reducers, init \in { Null, Number(0) } :
        /\ dataset' = data /\ reducer' = f /\ initial' = init
        /\ IF IsNullish(init)
           THEN IF data = << >>
                THEN /\ thrown' = TRUE /\ pc' = "reduced"
                     /\ UNCHANGED << pos, acc >>
                ELSE /\ acc' = data[1] /\ pos' = 1 /\ pc' = "reduce"
                     /\ UNCHANGED thrown
           ELSE /\ acc' = init /\ pos' = 0 /\ pc' = "reduce"
                /\ UNCHANGED thrown
        /\ UNCHANGED << args, grouper, selector, i, result, count, state, calls >>
        /\ UNCHANGED << insertVars, intervalVars, globalVars >>

\* one call func(accumulator, data[k], k)
ReduceStep ==
    /\ pc = "reduce" /\ pos < Len(dataset)
    /\ \E r \in { call(reducer, [fnState |-> fnState, self |-> self], acc,
                         dataset[pos + 1], pos) } :
           /\ fnState' = r.g.fnState /\ self' = r.g.self /\ UNCHANGED ns
           /\ thrown' = r.thrown
           /\ IF r.thrown
              THEN pc' = "reduced" /\ UNCHANGED << pos, acc >>
              ELSE acc' = r.ret /\ pos' = pos + 1 /\ pc' = "reduce"
    /\ UNCHANGED << args, dataset, grouper, selector, reducer, initial, i, result, count,
                    state, calls >>
    /\ UNCHANGED << insertVars, intervalVars >>

\* the array is exhausted: reduce returns the accumulator
ReduceReturn ==
    /\ pc = "reduce" /\ pos >= Len(dataset)
    /\ pc' = "reduced"
    /\ UNCHANGED << thrown, groupbyVars, reduceVars, globalVars >>
    /\ UNCHANGED << insertVars, intervalVars >>

\* dataship.num.mode(data) on an array
numMode(g, data) == reduce("mode", g, data, Undefined)

\* dataship.num.mode(data), call to return
CallNumMode ==
    /\ pc = "idle"
    /\ \E data \in SeqsUpTo(Numbers, MaxLen) :
          \E r \in { numMode([fnState |-> fnState, self |-> self], data) } :
              /\ dataset' = data /\ reducer' = "mode" /\ initial' = Undefined
              /\ acc' = r.ret /\ pos' = Len(data)
              /\ fnState' = r.g.fnState /\ self' = r.g.self /\ UNCHANGED ns
              /\ thrown' = r.thrown
    /\ pc' = "num.mode"
    /\ UNCHANGED << args, grouper, selector, i, result, count, state, calls >>
    /\ UNCHANGED << insertVars, intervalVars >>

NextReduce == CallReduce \/ ReduceStep \/ ReduceReturn \/ CallNumMode

SpecReduce == InitReduce /\ [][NextReduce]_vars

----------------------------------------------------------------------------
(* Properties of the stateful reducers folded over one array. *)

\* the j-th smallest element of a non-empty sequence of numbers, j from 1
OrderStat(q, j) ==
    CHOOSE x \in { q[n] : n \in 1..Len(q) } :
        /\ Cardinality({ n \in 1..Len(q) : JsLt(q[n], x) }) < j
        /\ Cardinality({ n \in 1..Len(q) : ~JsGt(q[n], x) }) >= j

\* the median of a non-empty sequence of numbers
MedianOf(q) ==
    IF Len(q) % 2 = 1
    THEN OrderStat(q, (Len(q) + 1) \div 2)
    ELSE JsDiv(JsAdd(OrderStat(q, Len(q) \div 2), OrderStat(q, (Len(q) \div 2) + 1)),
               Number(2))

\* the values contributed so far in the reduce call in progress
Contributed == SubSeq(dataset, 1, pos)

\* C4: folding the values of one group through ds.reduce.median with no
\* initial value leaves, after each contribution, the median of the values
\* contributed so far (the middle one of the sorted values, or the average
\* of the two middle ones); it depends on the multiset of values only, so
\* every permutation of the values ends with the same median.
MedianFold ==
    (pc \in { "reduce", "reduced" } /\ reducer = "median" /\ IsNullish(initial)
        /\ ~thrown /\ pos >= 1)
    => acc = MedianOf(Contributed)

\* a fold over an even number of values that arrived out of order has ended
MedianFoldWitness ==
    /\ pc = "reduced" /\ reducer = "median" /\ IsNullish(initial) /\ ~thrown
    /\ pos = MaxLen /\ Len(dataset) % 2 = 0
    /\ JsGt(dataset[1], dataset[2]) /\ JsLt(dataset[2], dataset[3])
    /\ acc.q = 2

\* how often x occurs among the first n elements of q
Occurrences(q, x, n) == Cardinality({ j \in 1..n : q[j] = x })

\* the position at which x reaches c occurrences in q
ReachedAt(q, x, c) == CHOOSE n \in 1..Len(q) : q[n] = x /\ Occurrences(q, x, n) = c

\* the most frequent value of q, the first to reach the top frequency on a tie
ModeOf(q) ==
    LET values == { q[n] : n \in 1..Len(q) }
        top == CHOOSE c \in 1..Len(q) :
                  /\ \E x \in values : Occurrences(q, x, Len(q)) = c
                  /\ \A x \in values : Occurrences(q, x, Len(q)) <= c
        tied == { x \in values : Occurrences(q, x, Len(q)) = top }
    IN  CHOOSE x \in tied : \A y \in tied : ReachedAt(q, x, top) <= ReachedAt(q, y, top)

\* C5: folding values through ds.reduce.mode leaves, after each update, a
\* value whose number of occurrences among the values seen so far is maximal,
\* and among several such values the one that reached that number first: a
\* value replaces the argmax only when its count strictly exceeds the
\* argmax's.
ModeFold ==
    (pc \in { "reduce", "reduced" } /\ reducer = "mode" /\ ~thrown /\ pos >= 1)
    => acc = ModeOf(Contributed)

\* a later value has tied with the argmax without replacing it, after the
\* argmax itself replaced the first value
ModeFoldWitness ==
    /\ pc = "reduced" /\ reducer = "mode" /\ ~thrown /\ pos = MaxLen
    /\ dataset[1] # dataset[2] /\ dataset[3] = dataset[2] /\ dataset[4] = dataset[1]
    /\ acc = dataset[2]

\* the first position at which x occurs in q
FirstAt(q, x) == CHOOSE n \in 1..Len(q) : q[n] = x /\ \A m \in 1..(n - 1) : q[m] # x

\* the most frequent value of q, the one occurring earliest in q on a tie
FirstMostCommon(q) ==
    LET values == { q[n] : n \in 1..Len(q) }
        tied == { x \in values :
                    \A y \in values : Occurrences(q, y, Len(q)) <= Occurrences(q, x, Len(q)) }
    IN  CHOOSE x \in tied : \A y \in tied : FirstAt(q, x) <= FirstAt(q, y)

\* C15: dataship.num.mode(data) returns the most common value of data and,
\* when several values share the highest frequency, the one of them that
\* occurs earliest in data.
NumModeFirst ==
    (pc = "num.mode" /\ ~thrown) => acc = FirstMostCommon(dataset)

----------------------------------------------------------------------------
(* dataship.frame.groupers.interval. *)

\* the labeler interval chooses from labels and bounds, applied to i
labeler(bnds, lbls, j) ==
    IF lbls.t = "null" \/ Len(lbls.items) < Len(bnds)
    THEN Number(j)
    ELSE IF Len(lbls.items) >= Len(bnds) + 1
    THEN At(lbls.items, j)
    ELSE IF j < Len(lbls.items)
         THEN At(lbls.items, j)
         ELSE Str(">" \o String(At(lbls.items, j - 1)))

\* the for loop of the grouper from i = j: the value of i it leaves with
RECURSIVE scanBoundsInclusive(_, _, _)
scanBoundsInclusive(bnds, v, j) ==
    IF j < Len(bnds)
    THEN IF ~JsGt(v, bnds[j + 1]) THEN j ELSE scanBoundsInclusive(bnds, v, j + 1)
    ELSE j

RECURSIVE scanBounds(_, _, _)
scanBounds(bnds, v, j) ==
    IF j < Len(bnds)
    THEN IF JsLt(v, bnds[j + 1]) THEN j ELSE scanBounds(bnds, v, j + 1)
    ELSE j

\* the grouper interval returns, applied to a row whose selected value is v
intervalGrouper(bnds, lbls, v) == labeler(bnds, lbls, scanBounds(bnds, v, 0))

\* f.label for a function of the model: the groupers interval builds over the
\* field Rating carry that name (line 1126), a plain function has no label
labelOfFunction(f) == IF f = Fn("interval") THEN Str("Rating") ELSE Undefined

\* the label of the field name only, a function's own label dropped
intervalLabelOfField(sel) == IF sel.t = "string" THEN sel ELSE Undefined

\* lines 1098-1102 and 1126: the label property of the grouper interval returns
intervalLabel(sel) ==
    IF sel.t = "string" THEN sel
    ELSE IF sel.t = "function" THEN labelOfFunction(sel)
    ELSE Undefined

----------------------------------------------------------------------------
(* The specification of interval: a grouper is built and applied to rows. *)

LabelNames == { "low", "high" }

\* the selectors interval is given: a field name, a function that has a label
\* (a grouper built by interval), a function that has none, and no selector
IntervalSelectors == { Str("Rating"), Str("Year"), Fn("interval"), Fn("plain"), Null }

InitInterval ==
    /\ pc = "idle" /\ thrown = FALSE
    /\ idleInsert /\ idleInterval /\ idleGroupby /\ idleReduce /\ idleGlobals

\* interval(sel, b, l): reading the label of a selector that is null throws
CallInterval ==
    /\ pc = "idle"
    /\ \E sel \in IntervalSelectors, b \in SeqsUpTo(Numbers, MaxBounds),
          l \in { NoLabels } \cup
                { Array(q) : q \in SeqsUpTo({ Str(n) : n \in LabelNames }, MaxBounds + 2) } :
          /\ intervalSelector' = sel /\ bounds' = b /\ labels' = l
          /\ IF IsNullish(sel)
             THEN thrown' = TRUE /\ pc' = "threw" /\ UNCHANGED grouperLabel
             ELSE grouperLabel' = intervalLabel(sel) /\ pc' = "interval" /\ UNCHANGED thrown
    /\ UNCHANGED << val, label >>
    /\ UNCHANGED << insertVars, groupbyVars, reduceVars, globalVars >>

\* grouper(row), the selector giving v for the row
CallGrouper ==
    \E v \in { Number(n) : n \in 0..(MaxVal + 1) } :
        /\ pc \in { "interval", "grouper" }
        /\ val' = v
        /\ label' = intervalGrouper(bounds, labels, v)
        /\ pc' = "grouper"
        /\ UNCHANGED << bounds, labels, intervalSelector, grouperLabel, thrown >>
        /\ UNCHANGED << insertVars, groupbyVars, reduceVars, globalVars >>

NextInterval == CallInterval \/ CallGrouper

SpecInterval == InitInterval /\ [][NextInterval]_vars

----------------------------------------------------------------------------
(* Properties of interval. *)

\* C8: with sorted bounds b0..b(n-1) and no labels the grouper maps a value v
\* to the index of the first bound strictly greater than v, and to n when no
\* bound exceeds v: the index i is in 0..n with b(i-1) <= v < b(i), so a value
\* equal to a bound falls into the interval above that bound.
IntervalIndex ==
    (pc = "grouper" /\ labels.t = "null" /\ Sorted(bounds)) =>
        \E j \in 0..Len(bounds) :
            /\ label = Number(j)
            /\ \A k \in 1..j : ~JsLt(val, bounds[k])
            /\ j < Len(bounds) => JsLt(val, bounds[j + 1])

\* a value equal to the first of two distinct bounds went into interval 1
IntervalIndexWitness ==
    /\ pc = "grouper" /\ labels.t = "null" /\ Sorted(bounds)
    /\ Len(bounds) = 2 /\ bounds[1] # bounds[2]
    /\ val = bounds[1] /\ label = Number(1)

IntervalCarriesLabel ==
    pc \in { "interval", "grouper" } =>
        /\ intervalSelector.t = "string" => grouperLabel = intervalSelector
        /\ intervalSelector.t = "function" =>
              grouperLabel = labelOfFunction(intervalSelector)

\* a grouper built over a labelled function has been applied to a row
IntervalCarriesLabelWitness ==
    /\ pc = "grouper" /\ intervalSelector.t = "function"
    /\ grouperLabel = Str("Rating")

----------------------------------------------------------------------------
(* dataship.frame.groupby.                                                 *)
(*                                                                         *)
(* A row is a record of its fields Year and Rating.  One pass of the loop  *)
(* body maps st = [result, count, state, calls, g, thrown] to the same     *)
(* record after the row.                                                   *)

Years == { Number(1999), Number(2006) }

Rows == [Year : Years, Rating : Numbers]

\* row[field]
Field(row, field) ==
    CASE field = "Year" -> row.Year
      [] field = "Rating" -> row.Rating
      [] OTHER -> Undefined

\* the grouper ds.frame.groupers.interval("Rating", [2], ["low", "high"])
RatingLevel == Fn("interval")

\* !a
Falsy(a) == IsNullish(a) \/ a.t = "nan" \/ a = Str("") \/ (IsNum(a) /\ a.p = 0)

\* f(row) does not throw a TypeError: f is a function, or the field name that
\* lines 983-986 and 990-993 turn into one
Callable(f) == f.t \in { "string", "function" }

\* grouper(row) after lines 983-986: a string names the field to group by
applyGrouper(gr, row) ==
    IF gr.t = "function" /\ gr.s = "interval"
    THEN intervalGrouper(<< Number(2) >>, Array(<< Str("low"), Str("high") >>), row.Rating)
    ELSE IF gr.t = "function" THEN row.Rating
    ELSE Field(row, gr.s)

\* line 988: selector = selector || grouper
resolveSelector(sel, gr) == IF Falsy(sel) THEN gr ELSE sel

\* selector(row) after lines 988-993
applySelector(sel, gr, row) == applyGrouper(resolveSelector(sel, gr), row)

\* the calls groupby has made: how often the grouper and the selector, with
\* what arguments the reducer, and the index i of each row the loop body ran on
NoCalls == [grouper |-> 0, selector |-> 0, reducer |-> << >>, rows |-> << >>]

\* the fold without line 1020: the state the reducer left is not saved
foldedNoCapture(st, red, id, n, r) ==
    IF r.thrown
    THEN [st EXCEPT !.g = r.g, !.thrown = TRUE]
    ELSE [st EXCEPT !.result = Put(st.result, id, r.ret),
                    !.count = Put(st.count, id, Number(n + 1)),
                    !.g = r.g]

\* lines 1019-1021: what the fold leaves once the reducer has returned r
folded(st, red, id, n, r) ==
    IF r.thrown
    THEN [st EXCEPT !.g = r.g, !.thrown = TRUE]
    ELSE [st EXCEPT !.result = Put(st.result, id, r.ret),
                    !.count = Put(st.count, id, Number(n + 1)),
                    !.state = Put(st.state, id, r.g.fnState[red]),
                    !.g = r.g]

\* the fold without line 1018: the reducer runs on the state the last call left
foldNoSwap(st, red, id, v) ==
    LET agg == Get(st.result, id)
        n == Get(st.count, id).p
        g0 == st.g
        st0 == [st EXCEPT !.calls.reducer =
                   Append(@, [id |-> id, agg |-> agg, val |-> v, n |-> n,
                              state |-> g0.fnState[red]])]
    IN  CHOOSE out \in { folded(st0, red, id, n, r) : r \in { call(red, g0, agg, v, n) } } :
            TRUE

\* lines 1016-1021: the fold of v into the aggregate of group id
fold(st, red, id, v) ==
    LET agg == Get(st.result, id)
        n == Get(st.count, id).p
        g0 == [st.g EXCEPT !.fnState[red] = Get(st.state, id)]
        st0 == [st EXCEPT !.calls.reducer =
                   Append(@, [id |-> id, agg |-> agg, val |-> v, n |-> n,
                              state |-> g0.fnState[red]])]
    IN  CHOOSE out \in { folded(st0, red, id, n, r) : r \in { call(red, g0, agg, v, n) } } :
            TRUE

\* the seeding branch without its continue: the seed row is folded as well
seedThenFold(st, red, init, id, v) ==
    IF Get(st.result, id) = Undefined
    THEN IF ~IsNullish(init)
         THEN fold([st EXCEPT !.result = Put(st.result, id, init),
                              !.count = Put(st.count, id, Number(0)),
                              !.state = Put(st.state, id, EmptyState)],
                   red, id, v)
         ELSE fold([st EXCEPT !.result = Put(st.result, id, v),
                              !.count = Put(st.count, id, Number(1)),
                              !.state = Put(st.state, id, EmptyState)],
                   red, id, v)
    ELSE fold(st, red, id, v)

\* lines 1004-1021: the loop body once id and val are known
seedOrFold(st, red, init, id, v) ==
    IF Get(st.result, id) = Undefined
    THEN IF ~IsNullish(init)
         THEN fold([st EXCEPT !.result = Put(st.result, id, init),
                              !.count = Put(st.count, id, Number(0)),
                              !.state = Put(st.state, id, EmptyState)],
                   red, id, v)
         ELSE [st EXCEPT !.result = Put(st.result, id, v),
                         !.count = Put(st.count, id, Number(1)),
                         !.state = Put(st.state, id, EmptyState)]
    ELSE fold(st, red, id, v)

\* a callback function(row) { ds.frame.groupby(inner, "Year"); return row.Rating; }
\* with an inner dataset of n rows
Nested(n) == [t |-> "function", p |-> n, q |-> 1, s |-> "nested"]

\* a callback function(row) { ...; return row.Rating; } that calls a library
\* function which runs titleify on an identifier of n words (lines 1152, 1168,
\* 1228)
Titled(n) == [t |-> "function", p |-> n, q |-> 1, s |-> "titled"]

\* the inner dataset of Nested(n)
innerDataset(n) == [j \in 1..n |-> [Year |-> Number(1999), Rating |-> Number(1)]]

\* lines 1182-1187: titleify leaves the global i at words.length
titleify(n) == n

RECURSIVE groupbyFrom(_, _, _, _, _, _, _)

\* what calling f(row) does to the loop state besides returning a value: i is
\* not declared in groupby (line 1000) nor in titleify (line 1183), so both
\* loops run on the one global i, and a nested call leaves it at its own
\* final value
called(f, st) ==
    IF f.t = "function" /\ f.s = "nested"
    THEN CHOOSE out \in { [st EXCEPT !.i = inner.i, !.g = inner.g] :
                          inner \in { groupbyFrom([result |-> EmptyObject,
                                                   count |-> EmptyObject,
                                                   state |-> EmptyObject,
                                                   calls |-> NoCalls, g |-> st.g,
                                                   i |-> 0, thrown |-> FALSE],
                                                  Str("Year"), Str("Year"), "count",
                                                  Number(0), innerDataset(f.p), 0) } } :
             TRUE
    ELSE IF f.t = "function" /\ f.s = "titled"
    THEN [st EXCEPT !.i = titleify(f.p)]
    ELSE st

\* lines 1001-1021: the loop body for the row at the global i; calling a
\* grouper or a selector that is no function throws a TypeError
groupbyRow(st, gr, sel, red, init, row) ==
    IF ~Callable(gr)
    THEN [st EXCEPT !.thrown = TRUE, !.calls.rows = Append(@, st.i)]
    ELSE IF ~Callable(resolveSelector(sel, gr))
    THEN [called(gr, st) EXCEPT !.thrown = TRUE, !.calls.grouper = @ + 1,
                                !.calls.rows = Append(@, st.i)]
    ELSE CHOOSE out \in
             { seedOrFold([st1 EXCEPT !.calls.grouper = @ + 1, !.calls.selector = @ + 1,
                                      !.calls.rows = Append(@, st.i)],
                          red, init, String(applyGrouper(gr, row)),
                          applySelector(sel, gr, row)) :
               st1 \in { called(resolveSelector(sel, gr), called(gr, st)) } } :
             TRUE

\* lines 977-981: the default reducer is count, with the initial value 0
reducerOrDefault(red) == IF red = "null" THEN "count" ELSE red
initialOrDefault(red, init) == IF red = "null" THEN Number(0) ELSE init

\* the loop of lines 1000-1022 with the global i at j (0-based): the body runs
\* on dataset[i], then i++ on whatever the body left in i
groupbyFrom(st, gr, sel, red, init, data, j) ==
    IF j >= Len(data) \/ st.thrown THEN [st EXCEPT !.i = j]
    ELSE CHOOSE out \in { groupbyFrom(st1, gr, sel, red, init, data, st1.i + 1) :
                          st1 \in { groupbyRow([st EXCEPT !.i = j], gr, sel, red, init,
                                               data[j + 1]) } } :
             TRUE

\* groupby(data, a.grouper, a.selector, a.reducer, a.initial) as one step from
\* the globals g: [result, count, state, calls, g, thrown] when it returns or
\* throws
groupby(g, data, a) ==
    groupbyFrom([result |-> EmptyObject, count |-> EmptyObject, state |-> EmptyObject,
                 calls |-> NoCalls, g |-> g, i |-> 0, thrown |-> FALSE],
                a.grouper, a.selector, reducerOrDefault(a.reducer),
                initialOrDefault(a.reducer, a.initial), data, 0)

----------------------------------------------------------------------------
(* The specification of groupby: one call, row by row. *)

Init ==
    /\ pc = "idle" /\ thrown = FALSE
    /\ idleInsert /\ idleInterval /\ idleGroupby /\ idleReduce /\ idleGlobals

\* groupby seeding from the first row as Array.prototype.reduce does, which
\* throws a TypeError on an empty array when there is no initial value
CallGroupbySeeded(datasets, groupers, selectors, reducers, initials) ==
    /\ pc = "idle"
    /\ \E data \in datasets, gr \in groupers, sel \in selectors, red \in reducers,
          init \in initials :
        /\ args' = [grouper |-> gr, selector |-> sel, reducer |-> red, initial |-> init]
        /\ dataset' = data
        /\ grouper' = gr
        /\ selector' = resolveSelector(sel, gr)
        /\ reducer' = reducerOrDefault(red)
        /\ initial' = initialOrDefault(red, init)
        /\ result' = EmptyObject /\ count' = EmptyObject /\ state' = EmptyObject
        /\ calls' = NoCalls
        /\ i' = 0
        /\ IF data = << >> /\ IsNullish(initialOrDefault(red, init))
           THEN pc' = "threw" /\ thrown' = TRUE
           ELSE pc' = "loop" /\ UNCHANGED thrown
        /\ UNCHANGED << insertVars, intervalVars, reduceVars, globalVars >>

\* groupby(data, gr, sel, red, init) up to the first test of the loop
CallGroupby(datasets, groupers, selectors, reducers, initials) ==
    /\ pc = "idle"
    /\ \E data \in datasets, gr \in groupers, sel \in selectors, red \in reducers,
          init \in initials :
        /\ args' = [grouper |-> gr, selector |-> sel, reducer |-> red, initial |-> init]
        /\ dataset' = data
        /\ grouper' = gr
        /\ selector' = resolveSelector(sel, gr)
        /\ reducer' = reducerOrDefault(red)
        /\ initial' = initialOrDefault(red, init)
        /\ result' = EmptyObject /\ count' = EmptyObject /\ state' = EmptyObject
        /\ calls' = NoCalls
        /\ i' = 0
        /\ pc' = "loop"
        /\ UNCHANGED << thrown, insertVars, intervalVars, reduceVars, globalVars >>

\* the loop body for row dataset[i], and i++
GroupbyRow ==
    /\ pc = "loop" /\ i < Len(dataset) /\ Len(calls.rows) < MaxPasses
    /\ \E st \in { groupbyRow([result |-> result, count |-> count, state |-> state,
                                calls |-> calls,
                                g |-> [fnState |-> fnState, self |-> self],
                                i |-> i, thrown |-> FALSE],
                               grouper, selector, reducer, initial, dataset[i + 1]) } :
           /\ result' = st.result /\ count' = st.count /\ state' = st.state
           /\ calls' = st.calls
           /\ fnState' = st.g.fnState /\ self' = st.g.self /\ UNCHANGED ns
           /\ thrown' = st.thrown
           /\ IF st.thrown
              THEN pc' = "threw" /\ i' = st.i
              ELSE pc' = "loop" /\ i' = st.i + 1
    /\ UNCHANGED << args, dataset, grouper, selector, reducer, initial >>
    /\ UNCHANGED << insertVars, intervalVars, reduceVars >>

\* i < dataset.length fails: groupby returns result
GroupbyReturn ==
    /\ pc = "loop" /\ i >= Len(dataset)
    /\ pc' = "returned"
    /\ UNCHANGED << thrown, groupbyVars, globalVars >>
    /\ UNCHANGED << insertVars, intervalVars, reduceVars >>

ReducerArgs == Reducers \cup { "null" }

Next ==
    \/ CallGroupby(SeqsUpTo(Rows, MaxRows), { Str("Year") }, { Null, Str("Rating") },
                   ReducerArgs, { Null, Number(0) })
    \/ GroupbyRow
    \/ GroupbyReturn

Spec == Init /\ [][Next]_vars

NextInterleaved ==
    \/ CallGroupby(SeqsUpTo(Rows, MaxInterleaved), { Str("Year") }, { Str("Rating") },
                   { "median" }, { Null })
    \/ GroupbyRow
    \/ GroupbyReturn

SpecInterleaved == Init /\ [][NextInterleaved]_vars

\* rows of two groups with two ratings: enough for two values to tie and for
\* either to be the mode of a group
TwoRatingRows == [Year : Years, Rating : { Number(1), Number(2) }]

NextInterleavedMode ==
    \/ CallGroupby(SeqsUpTo(TwoRatingRows, MaxInterleaved), { Str("Year") },
                   { Str("Rating") }, { "mode" }, { Null, Number(0) })
    \/ GroupbyRow
    \/ GroupbyReturn

SpecInterleavedMode == Init /\ [][NextInterleavedMode]_vars

\* rows some of which have no Rating field: row["Rating"] is undefined there
SparseRows == [Year : Years, Rating : { Number(1), Number(2), Undefined }]

NextSparse ==
    \/ CallGroupby(SeqsUpTo(SparseRows, MaxRows), { Str("Year") }, { Str("Rating") },
                   ReducerArgs, { Null, Number(0) })
    \/ GroupbyRow
    \/ GroupbyReturn

SpecSparse == Init /\ [][NextSparse]_vars

\* the groupers and selectors of a call: a field name, a function, and a
\* number, which is neither
Groupers == { Str("Year"), RatingLevel, Number(5) }

Selectors == { Null, Str("Rating"), Number(5) }

NextArguments ==
    \/ CallGroupby(SeqsUpTo(Rows, MaxArgRows), Groupers, Selectors, ReducerArgs,
                   { Null, Number(0) })
    \/ GroupbyRow
    \/ GroupbyReturn

SpecArguments == Init /\ [][NextArguments]_vars

\* callbacks that call back into the library: groupby on an inner dataset of
\* up to MaxRows rows, titleify on an identifier of up to MaxRows words
Callbacks == { Nested(n) : n \in 0..MaxRows } \cup { Titled(n) : n \in 1..MaxRows }

NextNested ==
    \/ CallGroupby(SeqsUpTo(Rows, MaxRows), { Str("Year") } \cup Callbacks,
                   { Str("Rating") } \cup Callbacks, { "count" }, { Number(0) })
    \/ GroupbyRow
    \/ GroupbyReturn

SpecNested == Init /\ [][NextNested]_vars

----------------------------------------------------------------------------
(* The specification of loading: the statements of the file that bind      *)
(* groupby run in the order of their lines, then groupby is called through *)
(* either of its names.                                                    *)

InitLoad ==
    /\ pc = "load" /\ thrown = FALSE
    /\ idleInsert /\ idleInterval /\ idleGroupby /\ idleReduce
    /\ fnState = [r \in Reducers |-> NoState] /\ self = NoState
    /\ ns = EmptyNamespace

\* line 176
ExposeTopLevel ==
    /\ pc = "load"
    /\ ns' = exposeTopLevel(ns)
    /\ pc' = "exposed"
    /\ UNCHANGED << thrown, fnState, self, insertVars, intervalVars, groupbyVars,
                    reduceVars >>

\* line 975, and the end of the file
DefineGroupby ==
    /\ pc = "exposed"
    /\ ns' = defineGroupby(ns)
    /\ pc' = "idle"
    /\ UNCHANGED << thrown, fnState, self, insertVars, intervalVars, groupbyVars,
                    reduceVars >>

\* f(data, gr, sel, red, init) for the value f of a property of dataship:
\* the call of groupby, or a TypeError when f is no function
CallThrough(f, datasets, groupers, selectors, reducers, initials) ==
    IF f.t = "function"
    THEN CallGroupby(datasets, groupers, selectors, reducers, initials)
    ELSE /\ pc = "idle"
         /\ thrown' = TRUE
         /\ pc' = "threw"
         /\ UNCHANGED << insertVars, intervalVars, groupbyVars, reduceVars, globalVars >>

\* ds.groupby(...)
CallTopLevel ==
    CallThrough(ns.groupby, SeqsUpTo(Rows, MaxArgRows), { Str("Year") },
                { Null, Str("Rating") }, { "null", "mean" }, { Null })

\* ds.frame.groupby(...)
CallFrameGroupby ==
    CallThrough(ns.frameGroupby, SeqsUpTo(Rows, MaxArgRows), { Str("Year") },
                { Null, Str("Rating") }, { "null", "mean" }, { Null })

NextLoad ==
    \/ ExposeTopLevel
    \/ DefineGroupby
    \/ CallTopLevel
    \/ CallFrameGroupby
    \/ GroupbyRow
    \/ GroupbyReturn

SpecLoad == InitLoad /\ [][NextLoad]_vars

----------------------------------------------------------------------------
(* Properties of one groupby call. *)

\* the library as loaded
Loaded == [fnState |-> [r \in Reducers |-> NoState], self |-> NoState]

\* the group keys of the rows, as the property keys of result
GroupKeys == { String(applyGrouper(grouper, dataset[j])) : j \in 1..Len(dataset) }

\* the indices of the rows of the group of that key
GroupRows(key) == { j \in 1..Len(dataset) : String(applyGrouper(grouper, dataset[j])) = key }

\* the selected values of the rows from j on that belong to the group, in order
RECURSIVE GroupValuesFrom(_, _)
GroupValuesFrom(key, j) ==
    IF j > Len(dataset) THEN << >>
    ELSE IF j \in GroupRows(key)
    THEN << applySelector(selector, grouper, dataset[j]) >> \o GroupValuesFrom(key, j + 1)
    ELSE GroupValuesFrom(key, j + 1)

GroupValues(key) == GroupValuesFrom(key, 1)

\* C1: with the rows of two groups in any interleaving, groupby with
\* ds.reduce.median returns for every group what folding ds.reduce.median
\* over that group's values alone, in their order, returns.
MedianIsolation ==
    (pc = "returned" /\ reducer = "median") =>
        \A key \in GroupKeys :
            Get(result, key) = reduce("median", Loaded, GroupValues(key), initial).ret

\* C2: groupby(dataset, grouper) with the default reducer returns a mapping
\* whose keys are exactly the grouper's outputs over the rows and whose value
\* at each key is the number of rows with that grouper output.
CountByGroup ==
    (pc = "returned" /\ args.reducer = "null") =>
        /\ Keys(result) = GroupKeys
        /\ \A key \in GroupKeys :
              Get(result, key) = Number(Cardinality(GroupRows(key)))

\* groupby(dataset, "Year") has returned for three rows of two groups, the
\* rows of one group apart
CountByGroupWitness ==
    /\ pc = "returned" /\ args.reducer = "null" /\ IsNullish(args.selector)
    /\ Len(dataset) = 3
    /\ dataset[1].Year = dataset[3].Year /\ dataset[1].Year # dataset[2].Year
    /\ Get(result, String(dataset[1].Year)) = Number(2)

\* the sum of a sequence of numbers
RECURSIVE SumOf(_)
SumOf(q) == IF q = << >> THEN Number(0) ELSE JsAdd(q[1], SumOf(Tail(q)))

\* C3: groupby with ds.reduce.mean and no initial value returns for every
\* group the arithmetic mean of the selected values of its rows, the sum
\* divided by the number of rows, whatever the interleaving of the groups.
MeanByGroup ==
    (pc = "returned" /\ reducer = "mean" /\ IsNullish(initial)) =>
        /\ Keys(result) = GroupKeys
        /\ \A key \in GroupKeys :
              Get(result, key) =
                  JsDiv(SumOf(GroupValues(key)), Number(Len(GroupValues(key))))

\* a mean that is no integer has been returned for a group of three rows
MeanByGroupWitness ==
    /\ pc = "returned" /\ reducer = "mean" /\ IsNullish(initial)
    /\ selector = Str("Rating")
    /\ \E key \in GroupKeys :
          /\ Len(GroupValues(key)) = 3
          /\ Get(result, key).q = 3

----------------------------------------------------------------------------
(* The specification of a session: groupby and reduce calls one after the  *)
(* other on one loaded library, each call leaving its state behind on the  *)
(* reducer functions and in the global self.                                *)

SessionRatings == { Number(1), Number(2) }

\* the rows of a session: a group of two ratings and a group of one
SessionRows ==
    { row \in [Year : Years, Rating : SessionRatings] :
        row.Year = Number(2006) => row.Rating = Number(1) }

SessionReducers == { "null", "mode", "median" }

SessionArgs ==
    [grouper : { Str("Year") }, selector : { Str("Rating") },
     reducer : SessionReducers, initial : { Null, Number(0) }]

\* groupby(data, a.grouper, a.selector, a.reducer, a.initial), call to return
SessionGroupby ==
    /\ pc \in { "idle", "session" }
    /\ \E data \in SeqsUpTo(SessionRows, MaxSession), a \in SessionArgs :
          \E st \in { groupby([fnState |-> fnState, self |-> self], data, a) } :
              /\ fnState' = st.g.fnState /\ self' = st.g.self /\ UNCHANGED ns
              /\ thrown' = st.thrown
    /\ pc' = "session"
    /\ UNCHANGED << groupbyVars, insertVars, intervalVars, reduceVars >>

\* reduce(data, func, init), call to return
SessionReduce ==
    /\ pc \in { "idle", "session" }
    /\ \E data \in SeqsUpTo(SessionRatings, MaxSession),
          f \in { "mode", "median" }, init \in { Null, Number(0) } :
          \E r \in { reduce(f, [fnState |-> fnState, self |-> self], data, init) } :
              /\ fnState' = r.g.fnState /\ self' = r.g.self /\ UNCHANGED ns
              /\ thrown' = FALSE
    /\ pc' = "session"
    /\ UNCHANGED << groupbyVars, insertVars, intervalVars, reduceVars >>

NextSession == SessionGroupby \/ SessionReduce

SpecSession == Init /\ [][NextSession]_vars

\* C10: two invocations of groupby with the same dataset, grouper, selector,
\* reducer and initial return identical mappings whatever groupby or reduce
\* calls were made before or between them: in every state a session can
\* leave the library in, every call returns the mapping it returns on the
\* library as loaded, which is itself such a state.
GroupbyDeterministic ==
    \A data \in SeqsUpTo(SessionRows, MaxSession), a \in SessionArgs :
        LET here == groupby([fnState |-> fnState, self |-> self], data, a)
            loaded == groupby(Loaded, data, a)
        IN  here.result = loaded.result /\ here.thrown = loaded.thrown

\* a groupby with median, then one with mode, have left their states behind
GroupbyDeterministicWitness ==
    /\ pc = "session"
    /\ fnState["median"] = EmptyState
    /\ fnState["mode"].kind = "table" /\ Len(fnState["mode"].table) = 2

----------------------------------------------------------------------------
(* Properties of the arguments of groupby. *)

\* the grouper or the selector passed is neither a field name nor a function
InvalidArguments ==
    \/ ~Callable(args.grouper)
    \/ ~Falsy(args.selector) /\ ~Callable(args.selector)

\* C11: a groupby call whose grouper or selector is neither a field-name
\* string nor a callable fails while its arguments are resolved: it never
\* enters the pass over the rows (pc = "loop"), so it neither throws from
\* inside the pass (pc = "threw") nor returns a mapping (pc = "returned"),
\* with an empty dataset as with any other.
InvalidArgumentsRejected ==
    (pc # "idle" /\ InvalidArguments) => pc \notin { "loop", "threw", "returned" }

\* C14: groupby over an empty dataset raises no error and returns an empty
\* mapping, whatever the grouper, the selector, the reducer and the initial
\* value are, and calls none of the grouper, the selector and the reducer.
EmptyDataset ==
    (pc # "idle" /\ dataset = << >>) =>
        /\ pc \in { "loop", "returned" } /\ ~thrown
        /\ result = EmptyObject
        /\ calls = NoCalls

\* groupby has returned for an empty dataset, a grouper that is no function
\* and a stateful reducer without an initial value
EmptyDatasetWitness ==
    /\ pc = "returned" /\ dataset = << >>
    /\ ~Callable(args.grouper) /\ args.reducer = "median" /\ IsNullish(args.initial)
    /\ OwnKeys(result) = << >>

\* the first row of the dataset that produces the group key
FirstRow(key) == CHOOSE j \in GroupRows(key) : \A k \in GroupRows(key) : j <= k

\* the place of the key in the enumeration of the returned mapping
KeyPlace(key) == CHOOSE j \in 1..Len(OwnKeys(result)) : OwnKeys(result)[j] = key

\* C12: the keys of the mapping groupby returns enumerate in first-encounter
\* order: key k1 comes before key k2 exactly when the first row producing k1
\* comes before the first row producing k2, for numeric and for string keys.
KeysInFirstEncounterOrder ==
    (pc = "returned" /\ ~InvalidArguments) =>
        \A k1 \in GroupKeys, k2 \in GroupKeys :
            KeyPlace(k1) < KeyPlace(k2) <=> FirstRow(k1) < FirstRow(k2)

----------------------------------------------------------------------------
(* Properties of the loop body of groupby. *)

\* the rows of the group that the pass has processed so far
Processed(key) == { j \in GroupRows(key) : j <= i }

\* the reducer invocations made so far for the group
Invocations(key) == SelectSeq(calls.reducer, LAMBDA c : c.id = key)

\* C13: with an explicit reducer and no initial value the first row of every
\* group seeds the aggregate with its selected value and the reducer is not
\* invoked for it, so the reducer has been invoked once per processed row of
\* the group but the first, and a group of exactly one row maps to that row's
\* selected value, whatever the reducer (count included).
SeedWithoutReducer ==
    (pc \in { "loop", "returned" } /\ args.reducer # "null" /\ IsNullish(args.initial)) =>
        \A key \in GroupKeys :
            /\ Processed(key) # { } =>
                  Len(Invocations(key)) = Cardinality(Processed(key)) - 1
            /\ Cardinality(Processed(key)) = 1 =>
                  \E j \in Processed(key) :
                      Get(result, key) = applySelector(selector, grouper, dataset[j])

\* groupby with ds.reduce.count and no initial value has returned the rating
\* of the only row of one group, next to the count of a group of two rows
SeedWithoutReducerWitness ==
    /\ pc = "returned" /\ args.reducer = "count" /\ IsNullish(args.initial)
    /\ \E k1 \in GroupKeys, k2 \in GroupKeys :
          /\ Cardinality(GroupRows(k1)) = 1 /\ Get(result, k1) = Number(MaxVal)
          /\ Invocations(k1) = << >>
          /\ Cardinality(GroupRows(k2)) = 2 /\ Get(result, k2) = Number(2)

----------------------------------------------------------------------------
(* Properties of the loaded library. *)

\* C16: once the file has finished loading, dataship.groupby (ds.groupby, ds
\* being the same object) refers to the function dataship.frame.groupby
\* refers to, so groupby can be called from the top-level namespace.
TopLevelExposed ==
    pc \notin { "load", "exposed" } =>
        /\ ns.groupby.t = "function"
        /\ ns.groupby = ns.frameGroupby

----------------------------------------------------------------------------
(* Properties of the state swap of groupby. *)

\* how many of the first n values of the group have the property key
Contributions(id, key, n) ==
    Cardinality({ m \in 1..n : String(GroupValues(id)[m]) = key })

\* C18: whatever the interleaving of the rows of different groups, groupby
\* with ds.reduce.mode returns for every group what folding ds.reduce.mode
\* over that group's values alone returns, and the frequency table the
\* reducer finds in its state when it is invoked for a group counts the
\* earlier values of that group and nothing else.
ModeIsolation ==
    (pc \in { "loop", "returned" } /\ reducer = "mode") =>
        /\ \A c \in { calls.reducer[j] : j \in 1..Len(calls.reducer) } :
              c.n >= 2 =>
                  /\ c.state.kind = "table"
                  /\ \A e \in { c.state.table[j] : j \in 1..Len(c.state.table) } :
                        e.value = Number(Contributions(c.id, e.key, c.n))
        /\ pc = "returned" =>
              \A key \in GroupKeys :
                  Get(result, key) = reduce("mode", Loaded, GroupValues(key), initial).ret

\* the last row went to a group of three rows after two rows of the other
\* group had come in between, and the two groups have different modes
ModeIsolationWitness ==
    /\ pc = "returned" /\ reducer = "mode" /\ Len(dataset) = MaxInterleaved
    /\ dataset[1].Year = dataset[2].Year /\ dataset[3].Year # dataset[1].Year
    /\ dataset[4].Year = dataset[3].Year /\ dataset[5].Year = dataset[1].Year
    /\ Get(result, String(dataset[1].Year)) # Get(result, String(dataset[3].Year))
    /\ calls.reducer[Len(calls.reducer)].n = 2

----------------------------------------------------------------------------
(* Properties of the reducer invocations of groupby. *)

\* the group key of the row the pass is at
CurrentKey == String(applyGrouper(grouper, dataset[i + 1]))

\* the group key of row j (from 1)
CurrentKeyAt(j) == String(applyGrouper(grouper, dataset[j]))

\* the step of the pass over row dataset[i] has invoked the reducer
Invoked == Len(calls'.reducer) = Len(calls.reducer) + 1

\* C19: every reducer invocation groupby makes for a group receives as third
\* argument the number of rows of the group processed before the current row
\* and as first argument the aggregate stored for the group after those rows.
\* With an initial value the reducer is invoked for every row and a group's
\* first invocation receives (initial, value, 0); without one it is invoked
\* for every row of a group but the first and the group's first invocation
\* receives (first value, second value, 1).
ReducerArguments ==
    [][(pc = "loop" /\ i' = i + 1) =>
        LET before == Cardinality(Processed(CurrentKey))
            c == calls'.reducer[Len(calls'.reducer)]
        IN  /\ Invoked <=> (~IsNullish(initial) \/ before > 0)
            /\ Invoked =>
                  /\ c.id = CurrentKey /\ c.n = before
                  /\ c.val = applySelector(selector, grouper, dataset[i + 1])
                  /\ c.agg = IF before = 0 THEN initial ELSE Get(result, CurrentKey)
                  /\ (before = 1 /\ IsNullish(initial)) =>
                        c.agg = applySelector(selector, grouper,
                                              dataset[FirstRow(CurrentKey)])]_vars

\* C20: processing one row of group k changes the entries of group k only:
\* the aggregate, the count and the state slot of every other group stay as
\* they were; when the reducer is invoked its state property holds the state
\* stored for k (an empty one for a group seeded by this row), and after the
\* step k's slot holds the state the reducer left in that property.
GroupFrame ==
    [][(pc = "loop" /\ i' = i + 1) =>
        /\ \A k \in (Keys(result) \cup Keys(result')) \ { CurrentKey } :
              /\ Has(result, k) /\ Has(result', k)
              /\ Get(result', k) = Get(result, k)
              /\ Get(count', k) = Get(count, k)
              /\ Get(state', k) = Get(state, k)
        /\ Invoked =>
              /\ calls'.reducer[Len(calls'.reducer)].state =
                    IF Get(result, CurrentKey) = Undefined
                    THEN EmptyState ELSE Get(state, CurrentKey)
              /\ Get(state', CurrentKey) = fnState'[reducer]]_vars

\* ds.reduce.mode has just been invoked for the first row of a second group
\* while the slot of the first group holds a frequency table
GroupFrameWitness ==
    /\ pc = "loop" /\ reducer = "mode" /\ i = MaxRows /\ ~IsNullish(initial)
    /\ Len(result) = 2 /\ CurrentKeyAt(i) = result[2].key
    /\ Cardinality(Processed(result[2].key)) = 1
    /\ Get(state, result[1].key).kind = "table"
    /\ Get(state, result[2].key) = EmptyState
    /\ calls.reducer[Len(calls.reducer)].id = result[2].key
    /\ fnState["mode"] = EmptyState

\* C22: a groupby pass runs its loop body on every row of the dataset exactly
\* once and in dataset order, also when the grouper or the selector calls
\* groupby or titleify: at any time the rows the body has run on are rows
\* 0, 1, 2, ... without a gap or a repetition (so the body runs at most
\* dataset.length times), and when groupby returns it has run on all of them.
EveryRowOnce ==
    /\ calls.rows = [j \in 1..Len(calls.rows) |-> j - 1]
    /\ pc = "returned" => Len(calls.rows) = Len(dataset)

\* C23: within one pass every group key is seeded once: the step over a row
\* whose key was produced by an earlier row of the pass folds the row into the
\* group's entries, that is, it invokes the reducer on the stored aggregate
\* with the stored state and adds one to the stored count, also when the
\* stored aggregate is undefined; it never starts the group again.
SeededOnce ==
    [][(pc = "loop" /\ i' = i + 1 /\ Processed(CurrentKey) # {}) =>
        /\ Invoked
        /\ calls'.reducer[Len(calls'.reducer)].agg = Get(result, CurrentKey)
        /\ calls'.reducer[Len(calls'.reducer)].state = Get(state, CurrentKey)
        /\ Get(count', CurrentKey) = Number(Get(count, CurrentKey).p + 1)]_vars

====
